---- MODULE Spec2Model ----
(***************************************************************************)
(* The WebSocket connection registry of the web backend                   *)
(* (apps/webapp/backend/app/routes/websocket.py): ConnectionManager, the   *)
(* token check get_current_user_ws, and the two endpoint handlers          *)
(* /ws/connect and /ws/notifications/{user_id}.                            *)
(*                                                                         *)
(* One task per open socket runs its endpoint handler; one more task       *)
(* stands for the other routes, which may call send_notification,          *)
(* broadcast and send_personal_message.  A step of the model is the code   *)
(* a task runs between two awaits (cooperative scheduling): the awaits are *)
(* websocket.close/accept/send_text/receive_text.                          *)
(***************************************************************************)
EXTENDS Integers, FiniteSets, Sequences, TLC

\* Number of sockets ever opened by clients (one handler task each).
NumSockets == 2

\* Number of requests the REST routes serve at a time (one task each).
NumWorkers == 2
\* Number of rows ever stored in a table.
MaxUsers == 2
MaxTasks == 1
MaxNotes == 1

Sockets == 1..NumSockets
\* The task of the other routes (send_notification "can be called from other routes").
RouteTask == 0
Tasks == {RouteTask} \cup Sockets

\* The user ids: the strings that parse as a UUID.
Users == {"u1", "u2"}
NoUser == ""

WS_1008_POLICY_VIOLATION == 1008
WS_1011_INTERNAL_ERROR == 1011

\* uuid4(): a fresh identifier; the one drawn by the handler of socket s.
uuid4(s) == <<"uuid", s>>
NoConn == <<>>
ConnIds == {uuid4(s) : s \in Sockets}

VARIABLES
    active_connections,  \* ConnectionManager.active_connections: connection id -> websocket
    user_connections,    \* ConnectionManager.user_connections: user id -> set of connection ids
    pc,                  \* where each task stands
    endpoint,            \* which handler runs on the socket: "connect" or "notifications"
    token,               \* handler parameter token (the query parameter of the upgrade request)
    user_id,             \* handler variable user_id (the path parameter on /notifications/{user_id})
    connection_id,       \* handler local connection_id
    client,              \* the client side of the socket: "none", "open", "gone"
    closed_with,         \* the close codes the server sent on the socket
    out,                 \* the message a handler is sending on its own socket
    frame                \* the running send_user_message / broadcast / send_personal_message call of a task

vars == <<active_connections, user_connections, pc, endpoint, token, user_id,
          connection_id, client, closed_with, out, frame>>

\* The database behind the REST routes, and the requests the routes are serving.
VARIABLES
    user_table,          \* table "user": id -> row
    task_table,          \* table "task": id -> row
    note_table,          \* table "note": id -> row
    issued,              \* how many ids uuid4() has given to stored rows, per table
    request,             \* the request each worker task is serving, at its next await
    response             \* the response sent in the last step, if one was sent

restvars == <<user_table, task_table, note_table, issued, request, response>>

registry == [ac |-> active_connections, uc |-> user_connections]

----------------------------------------------------------------------------
\* Tokens and their verification.

\* A token as the client presents it: given at all, correctly signed, and its "sub".
Tokens ==
    {[given |-> FALSE, signed |-> FALSE, sub |-> ""],
     [given |-> TRUE, signed |-> FALSE, sub |-> "u1"],
     [given |-> TRUE, signed |-> TRUE, sub |-> ""],
     [given |-> TRUE, signed |-> TRUE, sub |-> "not-a-uuid"]}
    \cup {[given |-> TRUE, signed |-> TRUE, sub |-> u] : u \in Users}

NoToken == [given |-> FALSE, signed |-> FALSE, sub |-> ""]
NoPayload == [valid |-> FALSE, sub |-> ""]

\* verify_token: the payload of a correctly signed token, None otherwise.
verify_token(tok) ==
    IF tok.signed THEN [valid |-> TRUE, sub |-> tok.sub] ELSE NoPayload

\* UUID(user_id_str) raises ValueError unless the string is a UUID.
IsUUID(str) == str \in Users

\* A faulty variant of get_current_user_ws: the "sub" is returned without being parsed.
get_current_user_ws_unparsed(tok) ==
    IF ~tok.given THEN [ok |-> FALSE, user |-> NoUser, close |-> {WS_1008_POLICY_VIOLATION}]
    ELSE LET payload == verify_token(tok) IN
         IF ~payload.valid \/ payload.sub = ""
         THEN [ok |-> FALSE, user |-> NoUser, close |-> {WS_1008_POLICY_VIOLATION}]
         ELSE [ok |-> TRUE, user |-> payload.sub, close |-> {}]

\* get_current_user_ws: the user of the token, or the socket closed and WebSocketException.
get_current_user_ws(tok) ==
    IF ~tok.given
    THEN [ok |-> FALSE, user |-> NoUser, close |-> {WS_1008_POLICY_VIOLATION}]
    ELSE LET payload == verify_token(tok) IN
         IF ~payload.valid
         THEN [ok |-> FALSE, user |-> NoUser, close |-> {WS_1008_POLICY_VIOLATION}]
         ELSE IF payload.sub = ""
         THEN [ok |-> FALSE, user |-> NoUser, close |-> {WS_1008_POLICY_VIOLATION}]
         ELSE IF ~IsUUID(payload.sub)
         THEN [ok |-> FALSE, user |-> NoUser, close |-> {WS_1008_POLICY_VIOLATION}]
         ELSE [ok |-> TRUE, user |-> payload.sub, close |-> {}]

----------------------------------------------------------------------------
\* The registry operations, on reg = [ac |-> active_connections, uc |-> user_connections].

EmptyMap == [x \in {} |-> x]
Without(f, k) == [x \in DOMAIN f \ {k} |-> f[x]]

\* A faulty variant of connect: the user's set is replaced instead of extended.
connect_replacing(reg, websocket, user, conn) ==
    [ac |-> (conn :> websocket) @@ reg.ac,
     uc |-> (user :> {conn}) @@ reg.uc]

\* ConnectionManager.connect, after websocket.accept() returned.
connect(reg, websocket, user, conn) ==
    [ac |-> (conn :> websocket) @@ reg.ac,
     uc |-> IF user \in DOMAIN reg.uc
            THEN [reg.uc EXCEPT ![user] = @ \cup {conn}]
            ELSE (user :> {conn}) @@ reg.uc]

\* A faulty variant of disconnect: only active_connections is cleaned.
disconnect_active_only(reg, user, conn) ==
    [ac |-> IF conn \in DOMAIN reg.ac THEN Without(reg.ac, conn) ELSE reg.ac,
     uc |-> reg.uc]

\* A faulty variant of disconnect: the emptied set is left under its key.
disconnect_keeping_key(reg, user, conn) ==
    [ac |-> IF conn \in DOMAIN reg.ac THEN Without(reg.ac, conn) ELSE reg.ac,
     uc |-> IF user \in DOMAIN reg.uc
            THEN [reg.uc EXCEPT ![user] = @ \ {conn}]
            ELSE reg.uc]

\* A faulty variant of disconnect: the user's key is deleted with whatever it holds.
disconnect_dropping_user(reg, user, conn) ==
    [ac |-> IF conn \in DOMAIN reg.ac THEN Without(reg.ac, conn) ELSE reg.ac,
     uc |-> IF user \in DOMAIN reg.uc THEN Without(reg.uc, user) ELSE reg.uc]

\* ConnectionManager.disconnect.
disconnect(reg, user, conn) ==
    [ac |-> IF conn \in DOMAIN reg.ac THEN Without(reg.ac, conn) ELSE reg.ac,
     uc |-> IF user \in DOMAIN reg.uc
            THEN IF reg.uc[user] \ {conn} = {}
                 THEN Without(reg.uc, user)
                 ELSE [reg.uc EXCEPT ![user] = @ \ {conn}]
            ELSE reg.uc]

----------------------------------------------------------------------------
\* The JSON messages the server builds, by their "type" and the keys of the object.

NoMessage == [type |-> "", keys |-> {}]

welcome_message ==
    [type |-> "connected", keys |-> {"type", "message", "connection_id", "user_id"}]
initial_message ==
    [type |-> "notifications_connected", keys |-> {"type", "message", "user_id"}]
error_response == [type |-> "error", keys |-> {"type", "message"}]
pong_response == [type |-> "pong", keys |-> {"type", "timestamp"}]
\* A faulty variant of update_notification: the timestamp is left out.
update_notification_untimed(type) == [type |-> type, keys |-> {"type", "data"}]

update_notification(type) == [type |-> type, keys |-> {"type", "data", "timestamp"}]
typing_notification == [type |-> "user_typing", keys |-> {"type", "data", "timestamp"}]
echo_response == [type |-> "echo", keys |-> {"type", "data", "timestamp"}]
\* send_notification(user_id, notification_type, data)
notification == [type |-> "notification", keys |-> {"type", "data", "timestamp"}]
\* The message argument of broadcast and send_personal_message: a string of the caller's.
CallerText == [type |-> "text", keys |-> {}]

\* What a client may send: text that is no JSON, JSON that is no object, or an
\* object with a "type" and a "data" that is an object or not.
ClientMessages ==
    {[json |-> "invalid", type |-> "", data |-> ""],
     [json |-> "array", type |-> "", data |-> ""]}
    \cup {[json |-> "object", type |-> ty, data |-> "object"] :
            ty \in {"ping", "task_update", "note_update", "typing", "other"}}
    \cup {[json |-> "object", type |-> "typing", data |-> "string"]}

----------------------------------------------------------------------------
\* A running call of send_user_message, broadcast or send_personal_message.

\* A faulty variant of SnapshotIter: the loop runs over the registry's own set, not a copy.
LiveIter(items) == [live |-> TRUE, items |-> items, size |-> Cardinality(items)]

\* The iterator of a for loop over items.copy().
SnapshotIter(items) == [live |-> FALSE, items |-> items, size |-> Cardinality(items)]

NoFrame ==
    [op |-> "none", user |-> NoUser, message |-> NoMessage, iter |-> SnapshotIter({}),
     snapshot |-> EmptyMap, visited |-> {}, sending |-> {}, raised |-> ""]

\* A faulty variant of send_user_message: the loop runs over every connection.
send_user_message_to_all(reg, message, user) ==
    [NoFrame EXCEPT !.op = "user", !.user = user, !.message = message,
                    !.iter = SnapshotIter(DOMAIN reg.ac)]

\* send_user_message up to its for loop.
send_user_message(reg, message, user) ==
    [NoFrame EXCEPT !.op = "user", !.user = user, !.message = message,
                    !.iter = IF user \in DOMAIN reg.uc
                             THEN SnapshotIter(reg.uc[user])
                             ELSE SnapshotIter({})]

\* broadcast up to its for loop.
broadcast(reg, message) ==
    [NoFrame EXCEPT !.op = "broadcast", !.message = message,
                    !.iter = SnapshotIter(DOMAIN reg.ac), !.snapshot = reg.ac]

\* send_personal_message up to its await: the send is started only on a
\* connection that is in active_connections.
send_personal_message(reg, f, conn) ==
    IF conn \in DOMAIN reg.ac
    THEN [f EXCEPT !.sending = {[conn |-> conn, websocket |-> reg.ac[conn]]}]
    ELSE f

\* The collection a loop without a copy would be running over.
LiveItems(f, reg) ==
    IF f.op = "user"
    THEN IF f.user \in DOMAIN reg.uc THEN reg.uc[f.user] ELSE {}
    ELSE DOMAIN reg.ac

\* What the for loop has still to visit.
Remaining(f, reg) ==
    (IF f.iter.live THEN LiveItems(f, reg) ELSE f.iter.items) \ f.visited

\* Python raises RuntimeError when a set or dict changes size while iterated.
SizeChanged(f, reg) ==
    f.iter.live /\ Cardinality(LiveItems(f, reg)) # f.iter.size

\* The connections of a user loop that send_personal_message passes over
\* without a send (a connection id is never registered twice, so one that is
\* passed over now would be passed over at any later turn as well).
PassedOver(f, reg) ==
    IF f.op = "user" THEN {c \in Remaining(f, reg) : c \notin DOMAIN reg.ac} ELSE {}

\* The call runs on to its next await, or to its end: the frames it may be in
\* then (the order of a loop over a set is not fixed).
Advance(f, reg) ==
    IF f.op = "personal" THEN {NoFrame}
    ELSE IF SizeChanged(f, reg) THEN {[NoFrame EXCEPT !.raised = "RuntimeError"]}
    ELSE LET next == Remaining(f, reg) \ PassedOver(f, reg) IN
         IF next = {} THEN {NoFrame}
         ELSE {IF f.op = "user"
               THEN send_personal_message(
                        reg, [f EXCEPT !.visited = @ \cup PassedOver(f, reg) \cup {c}], c)
               ELSE [f EXCEPT !.visited = @ \cup {c},
                              !.sending = {[conn |-> c, websocket |-> f.snapshot[c]]}] :
               c \in next}

\* A faulty variant of send_user_message_except: the failure is swallowed, nothing removed.
send_user_message_except_pass(reg, user, conn) == reg

\* The except branch of send_user_message.
send_user_message_except(reg, user, conn) == disconnect(reg, user, conn)

\* A faulty variant of broadcast_except: only active_connections is cleaned.
broadcast_except_half(reg, conn) ==
    [ac |-> IF conn \in DOMAIN reg.ac THEN Without(reg.ac, conn) ELSE reg.ac,
     uc |-> reg.uc]

\* The except branch of broadcast: the scan for the owning user, then disconnect.
broadcast_except(reg, conn) ==
    LET owners == {u \in DOMAIN reg.uc : conn \in reg.uc[u]} IN
    IF owners = {} THEN reg
    ELSE disconnect(reg, CHOOSE u \in owners : TRUE, conn)

\* A faulty variant of send_personal_message_except: the failed connection is dropped.
send_personal_message_pruning(reg, conn) ==
    [ac |-> IF conn \in DOMAIN reg.ac THEN Without(reg.ac, conn) ELSE reg.ac,
     uc |-> [u \in DOMAIN reg.uc |-> reg.uc[u] \ {conn}]]

\* send_personal_message has no except branch: the exception of send_text
\* leaves it, and the registry stays as it is.
send_personal_message_except(reg, conn) == reg

\* A send on a websocket goes through while the client is there and the handler
\* of the socket has not ended (the server closes the socket of a handler that
\* returned); otherwise send_text raises.
CanSend(websocket) == client[websocket] = "open" /\ pc[websocket] # "done"

----------------------------------------------------------------------------
\* No socket has been opened.
NoSockets ==
    /\ active_connections = EmptyMap
    /\ user_connections = EmptyMap
    /\ pc = [t \in Tasks |-> "idle"]
    /\ endpoint = [s \in Sockets |-> ""]
    /\ token = [s \in Sockets |-> NoToken]
    /\ user_id = [s \in Sockets |-> NoUser]
    /\ connection_id = [s \in Sockets |-> NoConn]
    /\ client = [s \in Sockets |-> "none"]
    /\ closed_with = [s \in Sockets |-> {}]
    /\ out = [s \in Sockets |-> NoMessage]
    /\ frame = [t \in Tasks |-> NoFrame]

\* A request no worker is serving, and no response.
NoRequest ==
    [op |-> "none", pc |-> "", caller |-> 0, superuser |-> FALSE, target |-> 0,
     email |-> "", username |-> "", password |-> "", is_active |-> "",
     is_superuser |-> "", field |-> "", body |-> ""]
NoResponse == [op |-> "none", status |-> 0, detail |-> "", user |-> 0, sub |-> 0]

\* The database is empty and no request is being served.
NoRequests ==
    /\ user_table = EmptyMap
    /\ task_table = EmptyMap
    /\ note_table = EmptyMap
    /\ issued = [user |-> 0, task |-> 0, note |-> 0]
    /\ request = [w \in 1..NumWorkers |-> NoRequest]
    /\ response = NoResponse

Init == NoSockets /\ NoRequests

SetRegistry(reg) ==
    /\ active_connections' = reg.ac
    /\ user_connections' = reg.uc

\* The handler of socket s returns: its locals are gone and the connection is
\* over; codes are the close codes it sent on the way.
HandlerEnds(s, codes) ==
    /\ pc' = [pc EXCEPT ![s] = "done"]
    /\ closed_with' = [closed_with EXCEPT ![s] = @ \cup codes]
    /\ endpoint' = [endpoint EXCEPT ![s] = ""]
    /\ token' = [token EXCEPT ![s] = NoToken]
    /\ user_id' = [user_id EXCEPT ![s] = NoUser]
    /\ connection_id' = [connection_id EXCEPT ![s] = NoConn]
    /\ client' = [client EXCEPT ![s] = "gone"]
    /\ out' = [out EXCEPT ![s] = NoMessage]

\* The handler ends in "except Exception": the socket is closed with 1011 and
\* nothing else is done.
InternalError(s) == HandlerEnds(s, {WS_1011_INTERNAL_ERROR})

\* The handler of socket s goes on to label, sending message on its own socket.
HandlerGoes(s, label, message) ==
    /\ pc' = [pc EXCEPT ![s] = label]
    /\ out' = [out EXCEPT ![s] = message]
    /\ UNCHANGED <<closed_with, endpoint, token, user_id, connection_id, client>>

\* A client opens socket s on one of the two endpoints (sockets are numbered in
\* the order they are opened).
ClientOpen(s) ==
    /\ UNCHANGED restvars
    /\ pc[s] = "idle"
    /\ \A r \in Sockets : r < s => pc[r] # "idle"
    /\ \E e \in {"connect", "notifications"}, tok \in Tokens :
         \E path \in (IF e = "notifications" THEN Users ELSE {NoUser}) :
            /\ endpoint' = [endpoint EXCEPT ![s] = e]
            /\ token' = [token EXCEPT ![s] = tok]
            /\ user_id' = [user_id EXCEPT ![s] = path]
    /\ client' = [client EXCEPT ![s] = "open"]
    /\ pc' = [pc EXCEPT ![s] = "auth"]
    /\ UNCHANGED <<active_connections, user_connections, connection_id, closed_with,
                   out, frame>>

\* The client side of socket s goes away.
ClientDrop(s) ==
    /\ UNCHANGED restvars
    /\ client[s] = "open"
    /\ pc[s] \in {"accept", "welcome", "receive", "reply", "fanout"}
    /\ client' = [client EXCEPT ![s] = "gone"]
    /\ UNCHANGED <<active_connections, user_connections, pc, endpoint, token, user_id,
                   connection_id, closed_with, out, frame>>

\* A faulty variant of own_notifications: any authenticated user may listen.
own_notifications_any(authenticated_user_id, path_user_id) == TRUE

\* user_notifications: "Check if user is accessing their own notifications".
own_notifications(authenticated_user_id, path_user_id) ==
    authenticated_user_id = path_user_id

\* websocket_endpoint / user_notifications up to "await manager.connect":
\* get_current_user_ws, the check of the path user, uuid4().
Authenticate(s) ==
    /\ UNCHANGED restvars
    /\ pc[s] = "auth"
    /\ LET r == get_current_user_ws(token[s]) IN
       IF ~r.ok
       THEN HandlerEnds(s, r.close)
       ELSE IF endpoint[s] = "notifications" /\ ~own_notifications(r.user, user_id[s])
       THEN HandlerEnds(s, {WS_1008_POLICY_VIOLATION})
       ELSE /\ user_id' = [user_id EXCEPT ![s] = r.user]
            /\ connection_id' = [connection_id EXCEPT ![s] = uuid4(s)]
            /\ token' = [token EXCEPT ![s] = NoToken]
            /\ pc' = [pc EXCEPT ![s] = "accept"]
            /\ UNCHANGED <<closed_with, endpoint, client, out>>
    /\ UNCHANGED <<active_connections, user_connections, frame>>

\* manager.connect: await websocket.accept(), then the two maps; the handler
\* goes on to send its first message.
Accept(s) ==
    /\ UNCHANGED restvars
    /\ pc[s] = "accept"
    /\ IF client[s] = "open"
       THEN /\ SetRegistry(connect(registry, s, user_id[s], connection_id[s]))
            /\ HandlerGoes(s, "welcome", IF endpoint[s] = "connect"
                                         THEN welcome_message ELSE initial_message)
       ELSE /\ InternalError(s)
            /\ UNCHANGED <<active_connections, user_connections>>
    /\ UNCHANGED frame

\* await websocket.send_text(json.dumps(welcome_message)), outside the inner try.
Welcome(s) ==
    /\ UNCHANGED restvars
    /\ pc[s] = "welcome"
    /\ IF CanSend(s)
       THEN HandlerGoes(s, "receive", NoMessage)
       ELSE InternalError(s)
    /\ UNCHANGED <<active_connections, user_connections, frame>>

\* The handler's answer to a client message: a reply on its own socket, a
\* send_user_message, or an exception.
Dispatch(s, m) ==
    IF endpoint[s] = "notifications" THEN [do |-> "reply", message |-> echo_response]
    ELSE IF m.json = "invalid" THEN [do |-> "reply", message |-> error_response]
    ELSE IF m.json # "object" THEN [do |-> "raise", message |-> NoMessage]
    ELSE IF m.type = "ping" THEN [do |-> "reply", message |-> pong_response]
    ELSE IF m.type = "task_update"
    THEN [do |-> "fanout", message |-> update_notification("task_updated")]
    ELSE IF m.type = "note_update"
    THEN [do |-> "fanout", message |-> update_notification("note_updated")]
    ELSE IF m.type = "typing"
    THEN IF m.data = "object" THEN [do |-> "fanout", message |-> typing_notification]
         ELSE [do |-> "raise", message |-> NoMessage]
    ELSE [do |-> "reply", message |-> error_response]

\* await websocket.receive_text() and the handling of what arrived.
Receive(s) ==
    /\ UNCHANGED restvars
    /\ pc[s] = "receive"
    /\ IF client[s] # "open"
       THEN /\ SetRegistry(disconnect(registry, user_id[s], connection_id[s]))
            /\ HandlerEnds(s, {})
            /\ UNCHANGED frame
       ELSE \E m \in ClientMessages :
              LET d == Dispatch(s, m) IN
              IF d.do = "reply"
              THEN /\ HandlerGoes(s, "reply", d.message)
                   /\ UNCHANGED <<active_connections, user_connections, frame>>
              ELSE IF d.do = "fanout"
              THEN /\ \E g \in Advance(send_user_message(registry, d.message, user_id[s]),
                                        registry) :
                        /\ frame' = [frame EXCEPT ![s] = g]
                        /\ HandlerGoes(s, IF g.op = "none" THEN "receive" ELSE "fanout",
                                       NoMessage)
                   /\ UNCHANGED <<active_connections, user_connections>>
              ELSE /\ InternalError(s)
                   /\ UNCHANGED <<active_connections, user_connections, frame>>

\* await websocket.send_text(...) inside the inner try: a failure is either a
\* WebSocketDisconnect or some other exception.
Reply(s) ==
    /\ UNCHANGED restvars
    /\ pc[s] = "reply"
    /\ IF CanSend(s)
       THEN /\ HandlerGoes(s, "receive", NoMessage)
            /\ UNCHANGED <<active_connections, user_connections>>
       ELSE \E exc \in {"WebSocketDisconnect", "Exception"} :
              IF exc = "WebSocketDisconnect"
              THEN /\ SetRegistry(disconnect(registry, user_id[s], connection_id[s]))
                   /\ HandlerEnds(s, {})
              ELSE /\ InternalError(s)
                   /\ UNCHANGED <<active_connections, user_connections>>
    /\ UNCHANGED frame

\* The other routes call send_notification(u, ...), broadcast or send_personal_message.
RouteCalls(f) ==
    /\ UNCHANGED restvars
    /\ pc[RouteTask] = "idle"
    /\ \E g \in Advance(f, registry) :
         /\ frame' = [frame EXCEPT ![RouteTask] = g]
         /\ pc' = [pc EXCEPT ![RouteTask] = IF g.op = "none" THEN "idle" ELSE "fanout"]
    /\ UNCHANGED <<active_connections, user_connections, endpoint, token, user_id,
                   connection_id, client, closed_with, out>>

RouteSendNotification(u) == RouteCalls(send_user_message(registry, notification, u))

RouteBroadcast == RouteCalls(broadcast(registry, CallerText))

RouteSendPersonal(c) ==
    /\ UNCHANGED restvars
    /\ pc[RouteTask] = "idle"
    /\ LET g == send_personal_message(
                    registry, [NoFrame EXCEPT !.op = "personal", !.message = CallerText], c)
       IN /\ frame' = [frame EXCEPT ![RouteTask] = IF g.sending = {} THEN NoFrame ELSE g]
          /\ pc' = [pc EXCEPT ![RouteTask] = IF g.sending = {} THEN "idle" ELSE "fanout"]
    /\ UNCHANGED <<active_connections, user_connections, endpoint, token, user_id,
                   connection_id, client, closed_with, out>>

\* What a failed send leaves of the registry: the except branch of the caller.
AfterFailure(f, reg, conn) ==
    IF f.op = "user" THEN send_user_message_except(reg, f.user, conn)
    ELSE IF f.op = "broadcast" THEN broadcast_except(reg, conn)
    ELSE send_personal_message_except(reg, conn)

\* The awaited send_text of a call returns or raises; the except branch runs,
\* and the call goes on to its next await or returns to its caller: the handler
\* goes back to receive_text, or ends in "except Exception" when the call raised.
SendDone(t) ==
    /\ UNCHANGED restvars
    /\ pc[t] = "fanout"
    /\ LET f == frame[t]
           x == CHOOSE y \in f.sending : TRUE
           reg == IF CanSend(x.websocket) THEN registry ELSE AfterFailure(f, registry, x.conn)
       IN
       /\ SetRegistry(reg)
       /\ \E g \in Advance([f EXCEPT !.sending = {}], reg) :
            /\ frame' = [frame EXCEPT ![t] = g]
            /\ IF g.op # "none"
               THEN UNCHANGED <<pc, endpoint, token, user_id, connection_id, client,
                                closed_with, out>>
               ELSE IF t = RouteTask
               THEN /\ pc' = [pc EXCEPT ![t] = "idle"]
                    /\ UNCHANGED <<endpoint, token, user_id, connection_id, client,
                                   closed_with, out>>
               ELSE IF g.raised = ""
               THEN HandlerGoes(t, "receive", NoMessage)
               ELSE InternalError(t)

Next ==
    \/ \E s \in Sockets : ClientOpen(s)
    \/ \E s \in Sockets : ClientDrop(s)
    \/ \E s \in Sockets : Authenticate(s)
    \/ \E s \in Sockets : Accept(s)
    \/ \E s \in Sockets : Welcome(s)
    \/ \E s \in Sockets : Receive(s)
    \/ \E s \in Sockets : Reply(s)
    \/ \E u \in Users : RouteSendNotification(u)
    \/ RouteBroadcast
    \/ \E c \in ConnIds : RouteSendPersonal(c)
    \/ \E t \in Tasks : SendDone(t)

Spec == Init /\ [][Next]_<<vars, restvars>>

----------------------------------------------------------------------------
(***************************************************************************)
(* The REST routes on users (routes/auth.py, routes/users.py) over the     *)
(* table "user" (packages/database/models.py).  One worker task serves a   *)
(* request; a step is the code it runs between two awaits, and the awaits   *)
(* are the dependency get_current_user, db.execute and db.commit (the       *)
(* db.refresh after a commit is taken together with the commit).  Each     *)
(* request has its own session: a select sees what is committed, a commit   *)
(* writes the fields the request changed.                                   *)
(***************************************************************************)

Workers == 1..NumWorkers
UserIds == 1..MaxUsers

\* The strings a client gives as email, username or login identifier.
Strings == {"a", "b"}
\* The passwords tried at login, and the ones users register with.
Passwords == {"p", "q"}
RegisteredPasswords == {"p"}
\* A field a request body leaves out.
Unset == ""

HTTP_200_OK == 200
HTTP_400_BAD_REQUEST == 400
HTTP_401_UNAUTHORIZED == 401
HTTP_403_FORBIDDEN == 403
HTTP_404_NOT_FOUND == 404
\* An exception no handler catches.
HTTP_500_INTERNAL_SERVER_ERROR == 500

\* hash_password and verify_password.
hash_password(password) == <<"hash", password>>
verify_password(password, hashed_password) == hashed_password = hash_password(password)

\* create_access_token(data={"sub": str(user.id)}): a signed token.
create_access_token(sub) == [given |-> TRUE, signed |-> TRUE, sub |-> sub]

\* The bearer tokens a client may present when n user ids have been issued:
\* none, a forged one, or one that login issued.
BearerTokens(n) ==
    {[NoToken EXCEPT !.sub = 0]}
    \cup {[given |-> TRUE, signed |-> FALSE, sub |-> i] : i \in 1..n}
    \cup {create_access_token(i) : i \in 1..n}

\* The row register stores.
User(email, username, hashed_password) ==
    [email |-> email, username |-> username, hashed_password |-> hashed_password,
     is_active |-> TRUE, is_superuser |-> FALSE]

\* A superuser is put into the table directly (no route makes one).
Superuser ==
    [email |-> "a", username |-> "a", hashed_password |-> hash_password("p"),
     is_active |-> TRUE, is_superuser |-> TRUE]

\* The responses.
Ok(op, user, sub) ==
    [op |-> op, status |-> HTTP_200_OK, detail |-> "", user |-> user, sub |-> sub]
HTTPException(op, status_code, detail) ==
    [op |-> op, status |-> status_code, detail |-> detail, user |-> 0, sub |-> 0]
\* An exception that leaves the handler: the framework answers 500.
Unhandled(op, exception) == HTTPException(op, HTTP_500_INTERNAL_SERVER_ERROR, exception)

\* A faulty variant of Unique: the columns are not declared unique.
NotUnique(tbl, id, row) == TRUE

\* email and username are unique columns: the row may be stored under id only
\* if no other row has its email or its username.
Unique(tbl, id, row) ==
    \A j \in DOMAIN tbl \ {id} :
       tbl[j].email # row.email /\ tbl[j].username # row.username

\* get_current_user: the row of the user a bearer token names.  A token that
\* is missing, does not verify or names no stored user is answered 401;
\* whether an inactive user is let through is left open.
get_current_user(tbl, tok) ==
    LET payload == verify_token(tok)
        credentials_exception ==
            [ok |-> FALSE, status |-> HTTP_401_UNAUTHORIZED, id |-> 0, is_superuser |-> FALSE]
    IN IF ~tok.given \/ ~payload.valid \/ payload.sub \notin DOMAIN tbl
       THEN {credentials_exception}
       ELSE LET user == [ok |-> TRUE, status |-> HTTP_200_OK, id |-> payload.sub,
                         is_superuser |-> tbl[payload.sub].is_superuser]
            IN IF tbl[payload.sub].is_active
               THEN {user}
               ELSE {user, [credentials_exception EXCEPT !.status = HTTP_400_BAD_REQUEST]}

\* get_current_superuser: get_current_user, and 403 for a user who is no superuser.
get_current_superuser(tbl, tok) ==
    {IF u.ok /\ ~u.is_superuser
     THEN [ok |-> FALSE, status |-> HTTP_403_FORBIDDEN, id |-> 0, is_superuser |-> FALSE]
     ELSE u : u \in get_current_user(tbl, tok)}

\* The answer to a request whose dependency raised.
DependencyRaised(op, u) ==
    HTTPException(op, u.status,
                  IF u.status = HTTP_401_UNAUTHORIZED THEN "Could not validate credentials"
                  ELSE IF u.status = HTTP_403_FORBIDDEN THEN "Not enough permissions"
                  ELSE "Inactive user")

\* A faulty variant of login: the password is not verified.
login_unverified(tbl, username, password) ==
    LET rows == {i \in DOMAIN tbl : tbl[i].username = username \/ tbl[i].email = username} IN
    IF Cardinality(rows) > 1 THEN Unhandled("login", "MultipleResultsFound")
    ELSE IF rows = {} THEN HTTPException("login", HTTP_401_UNAUTHORIZED,
                                         "Incorrect username or password")
    ELSE LET id == CHOOSE i \in rows : TRUE IN
         IF ~tbl[id].is_active
         THEN HTTPException("login", HTTP_400_BAD_REQUEST, "Inactive user")
         ELSE Ok("login", id, create_access_token(id).sub)

\* login: select by username or email, scalar_one_or_none, verify_password,
\* is_active, create_access_token.
login(tbl, username, password) ==
    LET rows == {i \in DOMAIN tbl : tbl[i].username = username \/ tbl[i].email = username} IN
    IF Cardinality(rows) > 1 THEN Unhandled("login", "MultipleResultsFound")
    ELSE IF rows = {} THEN HTTPException("login", HTTP_401_UNAUTHORIZED,
                                         "Incorrect username or password")
    ELSE LET id == CHOOSE i \in rows : TRUE IN
         IF ~verify_password(password, tbl[id].hashed_password)
         THEN HTTPException("login", HTTP_401_UNAUTHORIZED, "Incorrect username or password")
         ELSE IF ~tbl[id].is_active
         THEN HTTPException("login", HTTP_400_BAD_REQUEST, "Inactive user")
         ELSE Ok("login", id, create_access_token(id).sub)

\* register up to its commit: select by email or username, scalar_one_or_none,
\* the two 400s; NoResponse when the handler goes on to store the user.
register(tbl, email, username) ==
    LET rows == {i \in DOMAIN tbl : tbl[i].email = email \/ tbl[i].username = username} IN
    IF Cardinality(rows) > 1 THEN Unhandled("register", "MultipleResultsFound")
    ELSE IF rows = {} THEN NoResponse
    ELSE LET existing_user == tbl[CHOOSE i \in rows : TRUE] IN
         IF existing_user.email = email
         THEN HTTPException("register", HTTP_400_BAD_REQUEST, "Email already registered")
         ELSE HTTPException("register", HTTP_400_BAD_REQUEST, "Username already taken")

\* A faulty variant of get_current_user_info: the user a token names is
\* answered whatever the dependency said.
get_current_user_info_unchecked(tbl, tok) ==
    {Ok("me", IF tok.given THEN tok.sub ELSE 0, 0) : u \in get_current_user(tbl, tok)}

\* get_current_user_info (/auth/me): the dependency, then the current user.
get_current_user_info(tbl, tok) ==
    {IF u.ok THEN Ok("me", u.id, 0) ELSE DependencyRaised("me", u) :
       u \in get_current_user(tbl, tok)}

\* refresh_token: the dependency, then a new token for the current user.
refresh_token(tbl, tok) ==
    {IF u.ok THEN Ok("refresh", 0, create_access_token(u.id).sub)
     ELSE DependencyRaised("refresh", u) : u \in get_current_user(tbl, tok)}

\* A faulty variant of not_enough_permissions: every user may reach every profile.
enough_permissions(current_user, id) == FALSE

\* get_user and update_user: "Users can only access their own profile unless
\* they're superuser".
not_enough_permissions(current_user, id) ==
    id # current_user.id /\ ~current_user.is_superuser

\* The fields of a UserUpdate that differ from the loaded row: the ones the
\* handler checks for uniqueness and the commit writes.
Changed(value, loaded) == IF value = loaded THEN Unset ELSE value

\* The JSON body of an update_user request: one of email, username and
\* is_active is given, the others are left out; the client may add
\* "is_superuser": true.
UserUpdates ==
    {[email |-> e, username |-> u, is_active |-> a, is_superuser |-> s] :
        e \in Strings \cup {Unset}, u \in Strings \cup {Unset},
        a \in {"true", "false", Unset}, s \in {"true", Unset}}
    \ {b \in [email : Strings \cup {Unset}, username : Strings \cup {Unset},
              is_active : {"true", "false", Unset}, is_superuser : {"true", Unset}] :
          Cardinality({f \in {"email", "username", "is_active"} : b[f] # Unset}) # 1}

\* A faulty variant of UserUpdate: the schema takes every field of the body.
UserUpdate_any(body) == body

\* The body parsed as UserUpdate: the schema has the fields email, username,
\* full_name and is_active, and a field it does not have is dropped.
UserUpdate(body) == [body EXCEPT !.is_superuser = Unset]

\* The row as the UPDATE of a committing update_user leaves it: setattr for
\* every field that user_update.dict(exclude_unset=True) holds.
Updated(row, req) ==
    [row EXCEPT !.email = IF req.email = Unset THEN @ ELSE req.email,
                !.username = IF req.username = Unset THEN @ ELSE req.username,
                !.is_active = IF req.is_active = Unset THEN @ ELSE req.is_active = "true",
                !.is_superuser = IF req.is_superuser = Unset THEN @
                                 ELSE req.is_superuser = "true"]

----------------------------------------------------------------------------
\* The worker tasks of the user routes.

\* Requests are taken by the first worker that is free.
Free(w) ==
    /\ request[w] = NoRequest
    /\ \A v \in Workers : v < w => request[v] # NoRequest

\* Worker w goes on to its next await with req.
Serving(w, req) ==
    /\ request' = [request EXCEPT ![w] = req]
    /\ response' = NoResponse

\* Worker w sends the response r and is free again.
Responds(w, r) ==
    /\ request' = [request EXCEPT ![w] = NoRequest]
    /\ response' = r

\* No worker is serving a request.  (A handler with a single await reads the
\* table once and writes nothing: whatever it can answer while other requests
\* are being served it can answer with the same table and no request served,
\* so these handlers are run in such states only.)
Quiet == \A w \in Workers : request[w] = NoRequest

\* POST /auth/login.
Login ==
    /\ Quiet
    /\ \E username \in Strings, password \in Passwords :
         response' = login(user_table, username, password)
    /\ UNCHANGED <<user_table, task_table, note_table, issued, request, vars>>

\* GET /auth/me.
GetCurrentUserInfo ==
    /\ Quiet
    /\ \E tok \in BearerTokens(issued.user) :
         response' \in get_current_user_info(user_table, tok)
    /\ UNCHANGED <<user_table, task_table, note_table, issued, request, vars>>

\* POST /auth/refresh.
RefreshToken ==
    /\ Quiet
    /\ \E tok \in BearerTokens(issued.user) :
         response' \in refresh_token(user_table, tok)
    /\ UNCHANGED <<user_table, task_table, note_table, issued, request, vars>>

\* POST /auth/register, up to "await db.commit()".
Register(w) ==
    /\ Free(w)
    /\ issued.user + Cardinality({v \in Workers : request[v].op = "register"}) < MaxUsers
    /\ \E email \in Strings, username \in Strings, password \in RegisteredPasswords :
         LET r == register(user_table, email, username) IN
         IF r # NoResponse
         THEN Responds(w, r)
         ELSE Serving(w, [NoRequest EXCEPT !.op = "register", !.pc = "commit",
                                           !.email = email, !.username = username,
                                           !.password = password])
    /\ UNCHANGED <<user_table, task_table, note_table, issued, vars>>

\* register: db.add(new_user), db.commit(), db.refresh(new_user).
RegisterCommit(w) ==
    /\ request[w].op = "register"
    /\ LET req == request[w]
           id == issued.user + 1
           new_user == User(req.email, req.username, hash_password(req.password))
       IN IF Unique(user_table, id, new_user)
          THEN /\ user_table' = (id :> new_user) @@ user_table
               /\ issued' = [issued EXCEPT !.user = id]
               /\ Responds(w, Ok("register", id, 0))
          ELSE /\ UNCHANGED <<user_table, issued>>
               /\ Responds(w, Unhandled("register", "IntegrityError"))
    /\ UNCHANGED <<task_table, note_table, vars>>

\* GET /users/{user_id}, up to "await db.execute(statement)".
GetUser(w) ==
    /\ Free(w)
    /\ \E tok \in BearerTokens(issued.user), id \in 1..issued.user :
         \E u \in get_current_user(user_table, tok) :
            IF ~u.ok THEN Responds(w, DependencyRaised("get_user", u))
            ELSE IF not_enough_permissions(u, id)
            THEN Responds(w, HTTPException("get_user", HTTP_403_FORBIDDEN,
                                           "Not enough permissions"))
            ELSE Serving(w, [NoRequest EXCEPT !.op = "get_user", !.pc = "select",
                                              !.caller = u.id,
                                              !.superuser = u.is_superuser,
                                              !.target = id])
    /\ UNCHANGED <<user_table, task_table, note_table, issued, vars>>

\* get_user: the select of the user and the answer.
GetUserSelect(w) ==
    /\ request[w].op = "get_user"
    /\ IF request[w].target \in DOMAIN user_table
       THEN Responds(w, Ok("get_user", request[w].target, 0))
       ELSE Responds(w, HTTPException("get_user", HTTP_404_NOT_FOUND, "User not found"))
    /\ UNCHANGED <<user_table, task_table, note_table, issued, vars>>

\* PATCH /users/{user_id}, up to the select of the user.
UpdateUser(w) ==
    /\ Free(w)
    /\ \E tok \in BearerTokens(issued.user), id \in 1..issued.user :
         \E u \in get_current_user(user_table, tok) :
            IF ~u.ok THEN Responds(w, DependencyRaised("update_user", u))
            ELSE IF not_enough_permissions(u, id)
            THEN Responds(w, HTTPException("update_user", HTTP_403_FORBIDDEN,
                                           "Not enough permissions"))
            ELSE \E user_update \in {UserUpdate(body) : body \in UserUpdates} :
                    Serving(w, [NoRequest EXCEPT !.op = "update_user", !.pc = "select",
                                                 !.caller = u.id,
                                                 !.superuser = u.is_superuser,
                                                 !.target = id,
                                                 !.email = user_update.email,
                                                 !.username = user_update.username,
                                                 !.is_active = user_update.is_active,
                                                 !.is_superuser = user_update.is_superuser])
    /\ UNCHANGED <<user_table, task_table, note_table, issued, vars>>

\* Where update_user goes after an await: the email check if the email
\* changes, else the username check if the username changes, else the commit.
NextCheck(req, after) ==
    IF after = "select" /\ req.email # Unset THEN "email_check"
    ELSE IF after \in {"select", "email_check"} /\ req.username # Unset THEN "username_check"
    ELSE "commit"

\* update_user: the select of the user.
UpdateUserSelect(w) ==
    /\ request[w].op = "update_user" /\ request[w].pc = "select"
    /\ LET req == request[w] IN
       IF req.target \notin DOMAIN user_table
       THEN Responds(w, HTTPException("update_user", HTTP_404_NOT_FOUND, "User not found"))
       ELSE LET user == user_table[req.target]
                loaded == [req EXCEPT
                             !.email = Changed(@, user.email),
                             !.username = Changed(@, user.username),
                             !.is_active = Changed(@, IF user.is_active THEN "true"
                                                      ELSE "false")]
            IN Serving(w, [loaded EXCEPT !.pc = NextCheck(loaded, "select")])
    /\ UNCHANGED <<user_table, task_table, note_table, issued, vars>>

\* update_user: "Check for unique constraints", the select by email or by username.
UpdateUserCheck(w) ==
    /\ request[w].op = "update_user" /\ request[w].pc \in {"email_check", "username_check"}
    /\ LET req == request[w] IN
       IF req.pc = "email_check"
       THEN IF \E i \in DOMAIN user_table : user_table[i].email = req.email
            THEN Responds(w, HTTPException("update_user", HTTP_400_BAD_REQUEST,
                                           "Email already registered"))
            ELSE Serving(w, [req EXCEPT !.pc = NextCheck(req, "email_check")])
       ELSE IF \E i \in DOMAIN user_table : user_table[i].username = req.username
            THEN Responds(w, HTTPException("update_user", HTTP_400_BAD_REQUEST,
                                           "Username already taken"))
            ELSE Serving(w, [req EXCEPT !.pc = "commit"])
    /\ UNCHANGED <<user_table, task_table, note_table, issued, vars>>

\* update_user: setattr, db.commit(), db.refresh(user).
UpdateUserCommit(w) ==
    /\ request[w].op = "update_user" /\ request[w].pc = "commit"
    /\ LET req == request[w] IN
       IF req.target \notin DOMAIN user_table
       THEN /\ Responds(w, Unhandled("update_user", "StaleDataError"))
            /\ UNCHANGED user_table
       ELSE LET user == Updated(user_table[req.target], req) IN
            IF Unique(user_table, req.target, user)
            THEN /\ user_table' = [user_table EXCEPT ![req.target] = user]
                 /\ Responds(w, Ok("update_user", req.target, 0))
            ELSE /\ Responds(w, Unhandled("update_user", "IntegrityError"))
                 /\ UNCHANGED user_table
    /\ UNCHANGED <<task_table, note_table, issued, vars>>

\* DELETE /users/{user_id}, up to the select of the user.
DeleteUser(w) ==
    /\ Free(w)
    /\ \E tok \in BearerTokens(issued.user), id \in 1..issued.user :
         \E u \in get_current_superuser(user_table, tok) :
            IF ~u.ok THEN Responds(w, DependencyRaised("delete_user", u))
            ELSE Serving(w, [NoRequest EXCEPT !.op = "delete_user", !.pc = "select",
                                              !.caller = u.id,
                                              !.superuser = u.is_superuser,
                                              !.target = id])
    /\ UNCHANGED <<user_table, task_table, note_table, issued, vars>>

\* A faulty variant of deleting_yourself: the check is left out.
deleting_anyone(user, current_user) == FALSE

\* delete_user: "if user.id == current_user.id".
deleting_yourself(user, current_user) == user = current_user

\* delete_user: the select of the user, "Don't allow deleting yourself".
DeleteUserSelect(w) ==
    /\ request[w].op = "delete_user" /\ request[w].pc = "select"
    /\ LET req == request[w] IN
       IF req.target \notin DOMAIN user_table
       THEN Responds(w, HTTPException("delete_user", HTTP_404_NOT_FOUND, "User not found"))
       ELSE IF deleting_yourself(req.target, req.caller)
       THEN Responds(w, HTTPException("delete_user", HTTP_400_BAD_REQUEST,
                                      "Cannot delete yourself"))
       ELSE Serving(w, [req EXCEPT !.pc = "commit"])
    /\ UNCHANGED <<user_table, task_table, note_table, issued, vars>>

\* delete_user: db.delete(user), db.commit().
DeleteUserCommit(w) ==
    /\ request[w].op = "delete_user" /\ request[w].pc = "commit"
    /\ user_table' = Without(user_table, request[w].target)
    /\ Responds(w, Ok("delete_user", 0, 0))
    /\ UNCHANGED <<task_table, note_table, issued, vars>>

\* The table "user" as the service starts: empty, or holding one or two superusers.
UserInit ==
    /\ NoSockets
    /\ \E tbl \in {EmptyMap, 1 :> Superuser,
                   (1 :> Superuser) @@ (2 :> [Superuser EXCEPT !.email = "b", !.username = "b"])} :
         /\ user_table = tbl
         /\ issued = [user |-> Cardinality(DOMAIN tbl), task |-> 0, note |-> 0]
    /\ task_table = EmptyMap
    /\ note_table = EmptyMap
    /\ request = [w \in Workers |-> NoRequest]
    /\ response = NoResponse

UserNext ==
    \/ Login
    \/ GetCurrentUserInfo
    \/ RefreshToken
    \/ \E w \in Workers : Register(w)
    \/ \E w \in Workers : RegisterCommit(w)
    \/ \E w \in Workers : GetUser(w)
    \/ \E w \in Workers : GetUserSelect(w)
    \/ \E w \in Workers : UpdateUser(w)
    \/ \E w \in Workers : UpdateUserSelect(w)
    \/ \E w \in Workers : UpdateUserCheck(w)
    \/ \E w \in Workers : UpdateUserCommit(w)
    \/ \E w \in Workers : DeleteUser(w)
    \/ \E w \in Workers : DeleteUserSelect(w)
    \/ \E w \in Workers : DeleteUserCommit(w)

UserSpec == UserInit /\ [][UserNext]_<<vars, restvars>>

----------------------------------------------------------------------------
(***************************************************************************)
(* The REST routes on tasks and notes (routes/tasks.py, routes/notes.py)   *)
(* over the tables "task" and "note".  These routes do not write the table *)
(* "user", so the dependency get_current_user is taken together with the   *)
(* handler's first select; the other steps are as for the user routes.      *)
(***************************************************************************)

TaskIds == 1..MaxTasks
NoteIds == 1..MaxNotes

\* JSON null, given for a field.
Null == "null"

\* A faulty variant of valid_priorities: every priority a client gives passes.
any_priority == {"low", "medium", "high", "urgent"}

valid_priorities == {"low", "medium", "high"}
\* The priorities a client may give: the valid ones and one that is not.
Priorities == valid_priorities \cup {"urgent"}

\* The tags a client may give: the empty string, a JSON text, and a text that is no JSON.
TagStrings == {"", "[]", "{"}
\* json.loads(tags) raises JSONDecodeError unless tags is a JSON text.
JSONDecodeError(tags) == tags \notin {"[]"}

\* The bodies of update_task (completed or priority is given) and of update_note (tags).
TaskUpdates ==
    {[field |-> "completed", body |-> b] : b \in {"true", "false"}}
    \cup {[field |-> "priority", body |-> p] : p \in Priorities \cup {Null}}
NoteUpdates == {[field |-> "tags", body |-> g] : g \in TagStrings \cup {Null}}

\* The rows create_task and create_note store.
Task(user, priority) == [user_id |-> user, completed |-> FALSE, priority |-> priority]
Note(user, tags) == [user_id |-> user, tags |-> tags]

\* A faulty variant of Owned: the select does not ask for the owner.
OwnedByAnyone(tbl, id, current_user) == id \in DOMAIN tbl

\* select(...).where(and_(X.id == id, X.user_id == current_user.id)),
\* scalar_one_or_none(): a row is found.
Owned(tbl, id, current_user) == id \in DOMAIN tbl /\ tbl[id].user_id = current_user

\* get_task / get_note.
get_record(op, tbl, id, current_user) ==
    IF Owned(tbl, id, current_user) THEN Ok(op, tbl[id].user_id, 0)
    ELSE HTTPException(op, HTTP_404_NOT_FOUND,
                       IF op = "get_task" THEN "Task not found" ELSE "Note not found")

\* update_task, delete_task, toggle_task_completion up to their commit: 404,
\* the 400 of update_task, or NoResponse when the handler goes on.
task_select(op, tbl, id, current_user, update) ==
    IF ~Owned(tbl, id, current_user)
    THEN HTTPException(op, HTTP_404_NOT_FOUND, "Task not found")
    ELSE IF op = "update_task" /\ update.field = "priority" /\ update.body # Null
            /\ update.body \notin valid_priorities
    THEN HTTPException(op, HTTP_400_BAD_REQUEST, "Priority must be one of: low, medium, high")
    ELSE NoResponse

\* update_note, delete_note up to their commit.
note_select(op, tbl, id, current_user, update) ==
    IF ~Owned(tbl, id, current_user)
    THEN HTTPException(op, HTTP_404_NOT_FOUND, "Note not found")
    ELSE IF op = "update_note" /\ update.body # Null /\ JSONDecodeError(update.body)
    THEN HTTPException(op, HTTP_400_BAD_REQUEST, "Tags must be valid JSON")
    ELSE NoResponse

\* The value a task row holds for a field of TaskUpdate.
TaskField(row, field) ==
    IF field = "completed" THEN (IF row.completed THEN "true" ELSE "false") ELSE row.priority

\* The users whose token get_current_user accepts, with the tables as they are.
CurrentUsers ==
    {u.id : u \in {v \in UNION {get_current_user(user_table, tok) :
                                   tok \in BearerTokens(issued.user)} : v.ok}}

\* GET /tasks/{task_id} and GET /notes/{note_id}.
GetTask ==
    /\ Quiet
    /\ \E current_user \in CurrentUsers, id \in 1..issued.task :
         response' = get_record("get_task", task_table, id, current_user)
    /\ UNCHANGED <<user_table, task_table, note_table, issued, request, vars>>

GetNote ==
    /\ Quiet
    /\ \E current_user \in CurrentUsers, id \in 1..issued.note :
         response' = get_record("get_note", note_table, id, current_user)
    /\ UNCHANGED <<user_table, task_table, note_table, issued, request, vars>>

\* POST /tasks/, up to "await db.commit()".
CreateTask(w) ==
    /\ Free(w)
    /\ issued.task + Cardinality({v \in Workers : request[v].op = "create_task"}) < MaxTasks
    /\ \E current_user \in CurrentUsers, priority \in Priorities :
         IF priority \notin valid_priorities
         THEN Responds(w, HTTPException("create_task", HTTP_400_BAD_REQUEST,
                                        "Priority must be one of: low, medium, high"))
         ELSE Serving(w, [NoRequest EXCEPT !.op = "create_task", !.pc = "commit",
                                           !.caller = current_user, !.body = priority])
    /\ UNCHANGED <<user_table, task_table, note_table, issued, vars>>

\* create_task: db.add(new_task), db.commit(), db.refresh(new_task).
CreateTaskCommit(w) ==
    /\ request[w].op = "create_task"
    /\ LET id == issued.task + 1 IN
       /\ task_table' = (id :> Task(request[w].caller, request[w].body)) @@ task_table
       /\ issued' = [issued EXCEPT !.task = id]
       /\ Responds(w, Ok("create_task", request[w].caller, 0))
    /\ UNCHANGED <<user_table, note_table, vars>>

\* PATCH /tasks/{task_id}, DELETE /tasks/{task_id}, POST /tasks/{task_id}/toggle,
\* up to "await db.commit()".
TaskSelect(w) ==
    /\ Free(w)
    /\ \E current_user \in CurrentUsers, id \in 1..issued.task :
         \E op \in {"update_task", "delete_task", "toggle_task"} :
            \E update \in (IF op = "update_task" THEN TaskUpdates
                           ELSE {[field |-> "", body |-> ""]}) :
               LET r == task_select(op, task_table, id, current_user, update)
                   task == task_table[id]
                   write ==
                       IF op = "toggle_task"
                       THEN [field |-> "completed",
                             body |-> IF task.completed THEN "false" ELSE "true"]
                       ELSE IF op = "update_task"
                               /\ update.body = TaskField(task, update.field)
                       THEN [field |-> "", body |-> ""]
                       ELSE update
               IN IF r # NoResponse
                  THEN Responds(w, r)
                  ELSE Serving(w, [NoRequest EXCEPT !.op = op, !.pc = "commit",
                                                    !.caller = current_user, !.target = id,
                                                    !.field = write.field,
                                                    !.body = write.body])
    /\ UNCHANGED <<user_table, task_table, note_table, issued, vars>>

\* update_task and toggle_task_completion: db.commit(), db.refresh(task).
UpdateTaskCommit(w) ==
    /\ request[w].op \in {"update_task", "toggle_task"}
    /\ LET req == request[w] IN
       IF req.target \notin DOMAIN task_table
       THEN /\ Responds(w, Unhandled(req.op, "StaleDataError"))
            /\ UNCHANGED task_table
       ELSE IF req.body = Null
       THEN /\ Responds(w, Unhandled(req.op, "IntegrityError"))
            /\ UNCHANGED task_table
       ELSE /\ task_table' =
                 [task_table EXCEPT
                    ![req.target] =
                       IF req.field = "completed" THEN [@ EXCEPT !.completed = req.body = "true"]
                       ELSE IF req.field = "priority" THEN [@ EXCEPT !.priority = req.body]
                       ELSE @]
            /\ Responds(w, Ok(req.op, task_table[req.target].user_id, 0))
    /\ UNCHANGED <<user_table, note_table, issued, vars>>

\* delete_task: db.delete(task), db.commit().
DeleteTaskCommit(w) ==
    /\ request[w].op = "delete_task"
    /\ task_table' = Without(task_table, request[w].target)
    /\ Responds(w, Ok("delete_task", 0, 0))
    /\ UNCHANGED <<user_table, note_table, issued, vars>>

\* POST /notes/, up to "await db.commit()": "if note_data.tags:" lets null
\* and the empty string through without json.loads.
CreateNote(w) ==
    /\ Free(w)
    /\ issued.note + Cardinality({v \in Workers : request[v].op = "create_note"}) < MaxNotes
    /\ \E current_user \in CurrentUsers, tags \in TagStrings \cup {Null} :
         IF tags \notin {Null, ""} /\ JSONDecodeError(tags)
         THEN Responds(w, HTTPException("create_note", HTTP_400_BAD_REQUEST,
                                        "Tags must be valid JSON"))
         ELSE Serving(w, [NoRequest EXCEPT !.op = "create_note", !.pc = "commit",
                                           !.caller = current_user, !.body = tags])
    /\ UNCHANGED <<user_table, task_table, note_table, issued, vars>>

\* create_note: db.add(new_note), db.commit(), db.refresh(new_note).
CreateNoteCommit(w) ==
    /\ request[w].op = "create_note"
    /\ LET id == issued.note + 1 IN
       /\ note_table' = (id :> Note(request[w].caller, request[w].body)) @@ note_table
       /\ issued' = [issued EXCEPT !.note = id]
       /\ Responds(w, Ok("create_note", request[w].caller, 0))
    /\ UNCHANGED <<user_table, task_table, vars>>

\* PATCH /notes/{note_id} and DELETE /notes/{note_id}, up to "await db.commit()".
NoteSelect(w) ==
    /\ Free(w)
    /\ \E current_user \in CurrentUsers, id \in 1..issued.note :
         \E op \in {"update_note", "delete_note"} :
            \E update \in (IF op = "update_note" THEN NoteUpdates
                           ELSE {[field |-> "", body |-> ""]}) :
               LET r == note_select(op, note_table, id, current_user, update)
                   write == IF op = "update_note" /\ update.body = note_table[id].tags
                            THEN [field |-> "", body |-> ""]
                            ELSE update
               IN IF r # NoResponse
                  THEN Responds(w, r)
                  ELSE Serving(w, [NoRequest EXCEPT !.op = op, !.pc = "commit",
                                                    !.caller = current_user, !.target = id,
                                                    !.field = write.field,
                                                    !.body = write.body])
    /\ UNCHANGED <<user_table, task_table, note_table, issued, vars>>

\* update_note: db.commit(), db.refresh(note).
UpdateNoteCommit(w) ==
    /\ request[w].op = "update_note"
    /\ LET req == request[w] IN
       IF req.target \notin DOMAIN note_table
       THEN /\ Responds(w, Unhandled(req.op, "StaleDataError"))
            /\ UNCHANGED note_table
       ELSE /\ note_table' = [note_table EXCEPT
                                ![req.target] = IF req.field = "tags"
                                                THEN [@ EXCEPT !.tags = req.body] ELSE @]
            /\ Responds(w, Ok(req.op, note_table[req.target].user_id, 0))
    /\ UNCHANGED <<user_table, task_table, issued, vars>>

\* delete_note: db.delete(note), db.commit().
DeleteNoteCommit(w) ==
    /\ request[w].op = "delete_note"
    /\ note_table' = Without(note_table, request[w].target)
    /\ Responds(w, Ok("delete_note", 0, 0))
    /\ UNCHANGED <<user_table, task_table, issued, vars>>

\* Two users are stored, one of them a superuser; no task and no note yet.
RecordInit ==
    /\ NoSockets
    /\ user_table = (1 :> User("b", "b", hash_password("p"))) @@ (2 :> Superuser)
    /\ task_table = EmptyMap
    /\ note_table = EmptyMap
    /\ issued = [user |-> 2, task |-> 0, note |-> 0]
    /\ request = [w \in Workers |-> NoRequest]
    /\ response = NoResponse

RecordNext ==
    \/ GetTask
    \/ GetNote
    \/ \E w \in Workers : CreateTask(w)
    \/ \E w \in Workers : CreateTaskCommit(w)
    \/ \E w \in Workers : TaskSelect(w)
    \/ \E w \in Workers : UpdateTaskCommit(w)
    \/ \E w \in Workers : DeleteTaskCommit(w)
    \/ \E w \in Workers : CreateNote(w)
    \/ \E w \in Workers : CreateNoteCommit(w)
    \/ \E w \in Workers : NoteSelect(w)
    \/ \E w \in Workers : UpdateNoteCommit(w)
    \/ \E w \in Workers : DeleteNoteCommit(w)

RecordSpec == RecordInit /\ [][RecordNext]_<<vars, restvars>>

----------------------------------------------------------------------------
\* What the properties below speak of.

OwnerOf(c) == CHOOSE s \in Sockets : uuid4(s) = c
Absent(reg, c) == c \notin DOMAIN reg.ac /\ \A u \in DOMAIN reg.uc : c \notin reg.uc[u]
NoEmptySet(reg) == \A u \in DOMAIN reg.uc : reg.uc[u] # {}
EntryOf(reg, c) ==
    [active |-> c \in DOMAIN reg.ac, users |-> {u \in DOMAIN reg.uc : c \in reg.uc[u]}]
SendingConns(f) == {x.conn : x \in f.sending}
\* Task t takes the step.
Acted(t) == pc'[t] # pc[t] \/ frame'[t] # frame[t]
\* The awaited send of t's call completes in the step.
SendCompletes(t) == frame[t].sending # {} /\ frame'[t] # frame[t]
\* The connections the loop of t's call passes in the step.
NewlyVisited(t) ==
    LET before == IF frame[t].op = "none" THEN {} ELSE frame[t].visited IN
    IF frame'[t].op = "none"
    THEN IF frame[t].op = "none" THEN {} ELSE frame[t].iter.items \ before
    ELSE frame'[t].visited \ before
InCall(t, op) == frame[t].op = op \/ frame'[t].op = op
BadToken(tok) == ~tok.given \/ ~tok.signed \/ tok.sub = "" \/ tok.sub \notin Users

\* C1 as stated: send_user_message attempts a send on each connection of its
\* snapshot; a connection whose send fails is removed from both maps and not
\* tried again; a connection whose send succeeded stays registered.
C1_Original ==
    [][\A t \in Tasks :
         /\ InCall(t, "user") => \A c \in NewlyVisited(t) : c \in SendingConns(frame'[t])
         /\ frame[t].op = "user" /\ SendCompletes(t) =>
              \A x \in frame[t].sending :
                 IF CanSend(x.websocket)
                 THEN registry' = registry
                 ELSE Absent(registry', x.conn) /\ x.conn \notin SendingConns(frame'[t])]_vars

\* C1, amended: send_user_message attempts a send on each connection of its
\* snapshot that is still in active_connections when its turn comes (the others
\* are passed over without a send); each connection is passed once; a
\* connection whose send fails is removed from both maps at once, is not tried
\* again and stays removed for the rest of the call; a successful send removes
\* nothing.
C1_SendUserMessage ==
    [][\A t \in Tasks :
         /\ InCall(t, "user") =>
              \A c \in NewlyVisited(t) :
                 c \in SendingConns(frame'[t]) \/ c \notin DOMAIN active_connections'
         /\ frame[t].op = "user" /\ frame'[t].op = "user" /\ frame'[t] # frame[t] =>
              SendingConns(frame'[t]) \cap frame[t].visited = {}
         /\ frame[t].op = "user" /\ SendCompletes(t) =>
              \A x \in frame[t].sending :
                 IF CanSend(x.websocket)
                 THEN registry' = registry
                 ELSE Absent(registry', x.conn) /\ x.conn \notin SendingConns(frame'[t])
         /\ frame[t].op = "user" =>
              \A c \in frame[t].visited : Absent(registry, c) => Absent(registry', c)]_vars

\* A send_user_message over two or more connections whose current send is about to fail.
C1_Witness ==
    \E t \in Tasks :
       /\ frame[t].op = "user"
       /\ Cardinality(frame[t].iter.items) >= 2
       /\ \E x \in frame[t].sending :
            ~CanSend(x.websocket) /\ x.conn \in DOMAIN active_connections

\* C2: broadcast attempts a send on every connection of its snapshot of
\* active_connections; a connection whose send fails is gone from
\* active_connections and from its user's set, the user's key is gone if the set
\* became empty, and the connection stays removed for the rest of the call.
C2_Broadcast ==
    [][\A t \in Tasks :
         /\ InCall(t, "broadcast") =>
              \A c \in NewlyVisited(t) : c \in SendingConns(frame'[t])
         /\ frame[t].op = "broadcast" /\ SendCompletes(t) =>
              \A x \in frame[t].sending :
                 IF CanSend(x.websocket)
                 THEN registry' = registry
                 ELSE /\ Absent(registry', x.conn)
                      /\ NoEmptySet(registry')
                      /\ \A c \in ConnIds \ {x.conn} :
                            EntryOf(registry', c) = EntryOf(registry, c)
         /\ frame[t].op = "broadcast" =>
              \A c \in frame[t].visited : Absent(registry, c) => Absent(registry', c)]_vars

\* A broadcast whose current send is about to fail on a registered connection
\* that is the last one of its user, while another user's connection is registered.
C2_Witness ==
    \E t \in Tasks :
       /\ frame[t].op = "broadcast"
       /\ \E x \in frame[t].sending :
            /\ ~CanSend(x.websocket)
            /\ \E u \in DOMAIN user_connections : user_connections[u] = {x.conn}
       /\ Cardinality(DOMAIN user_connections) >= 2

\* C3: a handler that ended through disconnect has left neither map holding
\* its connection, and no key of user_connections ever maps to an empty set.
C3_Disconnect ==
    /\ NoEmptySet(registry)
    /\ \A s \in Sockets :
          pc[s] = "done" /\ closed_with[s] = {} => Absent(registry, uuid4(s))

\* One handler has ended through disconnect while another connection is registered.
C3_Witness ==
    /\ \E s \in Sockets : pc[s] = "done" /\ closed_with[s] = {}
    /\ DOMAIN active_connections # {}

\* C4: when connect completes, connection_id maps to the websocket in
\* active_connections and is a member of user_connections[user_id]; nothing
\* else of the two maps has changed.
C4_Connect ==
    [][\A s \in Sockets :
         pc[s] = "accept" /\ pc'[s] = "welcome" =>
            LET c == connection_id[s]
                u == user_id[s]
            IN /\ DOMAIN active_connections' = DOMAIN active_connections \cup {c}
               /\ active_connections'[c] = s
               /\ \A d \in DOMAIN active_connections \ {c} :
                     active_connections'[d] = active_connections[d]
               /\ DOMAIN user_connections' = DOMAIN user_connections \cup {u}
               /\ user_connections'[u] =
                     (IF u \in DOMAIN user_connections THEN user_connections[u] ELSE {})
                     \cup {c}
               /\ \A v \in DOMAIN user_connections \ {u} :
                     user_connections'[v] = user_connections[v]]_vars

\* A handler has just registered a second connection of its user.
C4_Witness ==
    \E s \in Sockets :
       /\ pc[s] = "welcome"
       /\ connection_id[s] \in DOMAIN active_connections
       /\ user_id[s] \in DOMAIN user_connections
       /\ Cardinality(user_connections[user_id[s]]) >= 2

\* C5 as stated: a failed send prunes the connection's entry in all three
\* send operations, send_personal_message included.
C5_Original ==
    [][\A t \in Tasks :
         SendCompletes(t) =>
            \A x \in frame[t].sending :
               ~CanSend(x.websocket) => Absent(registry', x.conn)]_vars

\* C5, amended: a failed send prunes the connection's entry in
\* send_user_message and in broadcast; a failed send_personal_message called on
\* its own leaves the registry as it was.
C5_Pruning ==
    [][\A t \in Tasks :
         SendCompletes(t) =>
            \A x \in frame[t].sending :
               ~CanSend(x.websocket) =>
                  IF frame[t].op = "personal"
                  THEN registry' = registry
                  ELSE Absent(registry', x.conn)]_vars

\* A send_personal_message called on its own is about to fail on a registered connection.
C5_Witness ==
    \E t \in Tasks :
       /\ frame[t].op = "personal"
       /\ \E x \in frame[t].sending :
            ~CanSend(x.websocket) /\ x.conn \in DOMAIN active_connections

\* C6: no send_user_message or broadcast raises because the registry changed
\* under its loop.
C6_NoRegistryError == \A t \in Tasks : frame[t].raised = ""

\* A loop is under way over a collection that has changed size since the loop began.
C6_Witness ==
    \E t \in Tasks :
       /\ frame[t].op \in {"user", "broadcast"}
       /\ frame[t].sending # {}
       /\ Cardinality(LiveItems(frame[t], registry)) # frame[t].iter.size

\* C7 as stated: the entries of a connection are added and removed only by the
\* task that handles that connection.
C7_Original ==
    [][\A c \in ConnIds :
         EntryOf(registry', c) # EntryOf(registry, c) => Acted(OwnerOf(c))]_vars

\* C7, amended: the entries of a connection are added only by the task that
\* handles that connection, in its connect; they are removed by that task, or
\* by the task of a send_user_message or broadcast whose send on that
\* connection failed.
C7_Mutators ==
    [][\A c \in ConnIds :
         EntryOf(registry', c) # EntryOf(registry, c) =>
            \/ Acted(OwnerOf(c)) /\ pc[OwnerOf(c)] = "accept"
            \/ Absent(registry', c) /\ Acted(OwnerOf(c))
            \/ /\ Absent(registry', c)
               /\ \E t \in Tasks :
                     /\ frame[t].op \in {"user", "broadcast"}
                     /\ SendCompletes(t)
                     /\ \E x \in frame[t].sending : x.conn = c /\ ~CanSend(x.websocket)]_vars

\* The call of one task is about to fail on the registered connection of another task.
C7_Witness ==
    \E t \in Tasks :
       \E x \in frame[t].sending :
          /\ frame[t].op \in {"user", "broadcast"}
          /\ OwnerOf(x.conn) # t
          /\ ~CanSend(x.websocket)
          /\ x.conn \in DOMAIN active_connections

\* C8: a handler whose token is missing, rejected by verify_token, without
\* "sub" or with a "sub" that is no UUID closes the socket with 1008 and ends,
\* the registry unchanged; a handler goes on to connect only with a token that
\* verifies and names a user.
C8_AuthBeforeRegister ==
    [][\A s \in Sockets :
         pc[s] = "auth" /\ pc'[s] # "auth" =>
            IF BadToken(token[s])
            THEN /\ pc'[s] = "done"
                 /\ closed_with'[s] = {WS_1008_POLICY_VIOLATION}
                 /\ registry' = registry
            ELSE pc'[s] = "accept" => user_id'[s] = token[s].sub]_vars

\* A handler is about to check a bad token while a connection is registered.
C8_Witness ==
    /\ \E s \in Sockets : pc[s] = "auth" /\ BadToken(token[s])
    /\ DOMAIN active_connections # {}

\* C9 as stated: when a handler has ended, its connection is in neither map.
C9_CleanupOnTermination ==
    \A s \in Sockets : pc[s] = "done" => Absent(registry, uuid4(s))

\* The messages the handlers and send_notification have under way.
InFlight ==
    {out[s] : s \in {r \in Sockets : out[r] # NoMessage}}
    \cup {frame[t].message : t \in {r \in Tasks : frame[r].op = "user"}}

Envelope == {"type", "data", "timestamp"}

\* C10 as stated: every message the server sends carries type, data and timestamp.
C10_Original == \A m \in InFlight : Envelope \subseteq m.keys

\* C10, amended: every message the server sends carries type; the update
\* notifications (task_updated, note_updated, user_typing), the echo and the
\* messages of send_notification carry exactly type, data and timestamp; the
\* welcome messages and the error carry neither data nor timestamp, and the
\* pong carries type and timestamp only.
C10_Envelopes ==
    \A m \in InFlight :
       /\ "type" \in m.keys
       /\ m.type \in {"task_updated", "note_updated", "user_typing", "echo", "notification"}
             => m.keys = Envelope
       /\ m.type \in {"connected", "notifications_connected", "error"}
             => m.keys \cap {"data", "timestamp"} = {}
       /\ m.type = "pong" => m.keys = {"type", "timestamp"}
       /\ m.type \in {"task_updated", "note_updated", "user_typing", "echo", "notification",
                      "connected", "notifications_connected", "error", "pong"}

\* A handler is sending a pong while a task_updated notification is fanned out.
C10_Witness ==
    /\ \E s \in Sockets : out[s] = pong_response
    /\ \E t \in Tasks : frame[t].op = "user" /\ frame[t].message.type = "task_updated"

\* A handler on /ws/notifications/{user_id} passes the token check in the step.
NotificationsChecked(s) ==
    /\ pc[s] = "auth" /\ pc'[s] # "auth"
    /\ endpoint[s] = "notifications"
    /\ ~BadToken(token[s])

\* C18: on /ws/notifications/{user_id} a client whose token names another user
\* than the path is closed with 1008 and its handler ends, the registry
\* unchanged; a socket closed with 1008 is never in the registry; a handler
\* that goes on does so under the user of its token, keeps that user until it
\* registers, and registers its connection under that user and no other.
C18_NotificationsOwnUser ==
    [][\A s \in Sockets :
         /\ NotificationsChecked(s) =>
              IF token[s].sub # user_id[s]
              THEN /\ pc'[s] = "done"
                   /\ closed_with'[s] = {WS_1008_POLICY_VIOLATION}
                   /\ registry' = registry
              ELSE pc'[s] = "accept" /\ user_id'[s] = token[s].sub
         /\ WS_1008_POLICY_VIOLATION \in closed_with'[s] => Absent(registry', uuid4(s))
         /\ pc[s] = "accept" /\ endpoint[s] = "notifications" =>
              \/ pc'[s] = "accept" /\ user_id'[s] = user_id[s]
              \/ pc'[s] = "done" /\ Absent(registry', uuid4(s))
              \/ /\ pc'[s] = "welcome"
                 /\ EntryOf(registry', uuid4(s)) =
                       [active |-> TRUE, users |-> {user_id[s]}]]_vars

\* A handler on /ws/notifications/{user_id} is about to check a token that
\* names another user than the path, while that path user has a connection.
C18_Witness ==
    \E s \in Sockets :
       /\ pc[s] = "auth"
       /\ endpoint[s] = "notifications"
       /\ ~BadToken(token[s])
       /\ token[s].sub # user_id[s]
       /\ user_id[s] \in DOMAIN user_connections

\* The update notifications of websocket_endpoint.
UpdateTypes == {"task_updated", "note_updated"}

\* C19 as stated: the task_updated (note_updated) notification of a handler is
\* sent on the user's other connections, never on the connection that sent the
\* update.
C19_OtherConnections ==
    \A s \in Sockets :
       frame[s].op = "user" /\ frame[s].message.type \in UpdateTypes =>
          connection_id[s] \notin SendingConns(frame[s])

\* C20: the keys of active_connections are the union of the sets of
\* user_connections, and no connection id is in the sets of two users.
C20_RegistryConsistent ==
    /\ DOMAIN active_connections = UNION {user_connections[u] : u \in DOMAIN user_connections}
    /\ \A u, v \in DOMAIN user_connections :
          u # v => user_connections[u] \cap user_connections[v] = {}

\* Two users have a connection each while a fan-out is about to fail on one of them.
C20_Witness ==
    /\ Cardinality(DOMAIN user_connections) >= 2
    /\ \E t \in Tasks :
          \E x \in frame[t].sending :
             ~CanSend(x.websocket) /\ x.conn \in DOMAIN active_connections

----------------------------------------------------------------------------
\* The user routes.

allvars == <<vars, restvars>>
Tables == <<user_table, task_table, note_table>>

\* The stored users a login identifier selects.
Matching(username) ==
    {i \in DOMAIN user_table :
        user_table[i].username = username \/ user_table[i].email = username}

\* C11 as stated: whatever users are stored, a register request whose email
\* or username is held by a stored user is answered 400 'Email already
\* registered' or 'Username already taken' (and, being answered, stores nothing).
C11_RegisterDuplicate ==
    \A email \in Strings, username \in Strings :
       (\E i \in DOMAIN user_table :
           user_table[i].email = email \/ user_table[i].username = username)
       => LET r == register(user_table, email, username) IN
          /\ r.status = HTTP_400_BAD_REQUEST
          /\ r.detail \in {"Email already registered", "Username already taken"}

\* C12: no two stored users share an email, and no two share a username.
C12_UniqueUsers ==
    \A i, j \in DOMAIN user_table :
       i # j => /\ user_table[i].email # user_table[j].email
                /\ user_table[i].username # user_table[j].username

\* A commit has just been refused by the unique columns while two users are stored.
C12_Witness ==
    /\ response.detail = "IntegrityError"
    /\ Cardinality(DOMAIN user_table) = 2

C14_LoginSucceeds ==
    \A i \in DOMAIN user_table : \A password \in Passwords :
       user_table[i].is_active /\ verify_password(password, user_table[i].hashed_password)
       => \A username \in {user_table[i].username, user_table[i].email} :
             login(user_table, username, password) = Ok("login", i, i)

\* The tokens that are missing or do not verify.
InvalidTokens(n) == {tok \in BearerTokens(n) : ~tok.given \/ ~verify_token(tok).valid}

\* C15: a request on a protected route with no token or with a token that
\* does not verify is answered 401, without user data and without a token:
\* both dependencies raise 401 and /auth/me and /auth/refresh answer it; and
\* no step that answers 401 changes a table.
C15_Unauthorized ==
    [][/\ \A tok \in InvalidTokens(issued'.user) :
            /\ \A u \in get_current_user(user_table', tok)
                        \cup get_current_superuser(user_table', tok) :
                  ~u.ok /\ u.status = HTTP_401_UNAUTHORIZED
            /\ \A r \in get_current_user_info(user_table', tok)
                        \cup refresh_token(user_table', tok) :
                  r.status = HTTP_401_UNAUTHORIZED /\ r.user = 0 /\ r.sub = 0
       /\ response'.status = HTTP_401_UNAUTHORIZED =>
            /\ Tables' = Tables
            /\ response'.user = 0 /\ response'.sub = 0]_allvars

\* /auth/me has just been answered 401 while users are stored.
C15_Witness ==
    /\ response.op = "me" /\ response.status = HTTP_401_UNAUTHORIZED
    /\ Cardinality(DOMAIN user_table) = 2

\* C17: get_user and update_user refuse a user who is no superuser and asks
\* for another user's id: the request is answered 403 without user data and
\* the tables stay as they are, and a request that goes on to its select is
\* for the caller's own id or comes from a superuser.
C17_UsersForbidden ==
    [][/\ \A i \in DOMAIN user_table' : \A id \in UserIds :
            ~user_table'[i].is_superuser /\ id # i =>
               not_enough_permissions([id |-> i, is_superuser |-> FALSE], id)
       /\ \A w \in Workers :
            request'[w].op \in {"get_user", "update_user"} =>
               request'[w].target = request'[w].caller \/ request'[w].superuser
       /\ response'.status = HTTP_403_FORBIDDEN =>
            /\ Tables' = Tables
            /\ response'.user = 0]_allvars

\* An update_user has just been answered 403 while two users are stored and
\* none of them is a superuser.
C17_Witness ==
    /\ response.op = "update_user" /\ response.status = HTTP_403_FORBIDDEN
    /\ Cardinality(DOMAIN user_table) = 2
    /\ \A i \in DOMAIN user_table : ~user_table[i].is_superuser


\* The requests on a stored task or note that C16 speaks of, as a user may issue them.
TaskRequests ==
    {[op |-> "update_task", update |-> u] : u \in TaskUpdates}
    \cup {[op |-> o, update |-> [field |-> "", body |-> ""]] : o \in {"delete_task", "toggle_task"}}
NoteRequests ==
    {[op |-> "update_note", update |-> u] : u \in NoteUpdates}
    \cup {[op |-> "delete_note", update |-> [field |-> "", body |-> ""]]}

\* Every request of a user other than the owner on the stored record is answered 404.
NotFoundForOthers(tbl, get, select, requests) ==
    \A id \in DOMAIN tbl : \A current_user \in UserIds \ {tbl[id].user_id} :
        /\ get_record(get, tbl, id, current_user).status = HTTP_404_NOT_FOUND
        /\ \A r \in requests :
              select = "task" =>
                 task_select(r.op, tbl, id, current_user, r.update).status = HTTP_404_NOT_FOUND
        /\ \A r \in requests :
              select = "note" =>
                 note_select(r.op, tbl, id, current_user, r.update).status = HTTP_404_NOT_FOUND

\* A record is changed or removed in this step only by the commit of a request of its owner.
OnlyOwnerWrites(tbl, tblAfter) ==
    \A id \in DOMAIN tbl :
        (id \notin DOMAIN tblAfter \/ tblAfter[id] # tbl[id]) =>
            \E w \in Workers : /\ request[w].pc = "commit"
                               /\ request[w].target = id
                               /\ request[w].caller = tbl[id].user_id
                               /\ request'[w] = NoRequest

\* C16: a get, update, delete or toggle request on a task and a get, update or
\* delete request on a note by an authenticated user who is not the record's
\* owner is answered 404 (also for a superuser), the step that answers 404
\* writes no table, and a stored record is changed or removed only by a
\* request of its owner.
C16_OwnershipCheck ==
    [][ /\ NotFoundForOthers(task_table, "get_task", "task", TaskRequests)
        /\ NotFoundForOthers(note_table, "get_note", "note", NoteRequests)
        /\ response'.status = HTTP_404_NOT_FOUND => Tables' = Tables
        /\ OnlyOwnerWrites(task_table, task_table')
        /\ OnlyOwnerWrites(note_table, note_table') ]_allvars

\* A toggle request on a stored task of another user was answered 404 while a
\* note is stored too.
C16_Witness ==
    /\ response.op = "toggle_task"
    /\ response.status = HTTP_404_NOT_FOUND
    /\ task_table # EmptyMap
    /\ note_table # EmptyMap


\* The connections of the call's snapshot whose turn has not come.
NotYetVisited(f) == f.iter.items \ f.visited

\* C21: when a send of send_user_message or broadcast fails, the call does not
\* end there and raises nothing: it goes on to a send on a connection of its
\* snapshot whose turn had not come (for send_user_message: one that is still
\* in active_connections), never on one it passed before, and it ends only
\* when no such connection is left.
C21_FanoutGoesOn ==
    [][\A t \in Tasks :
         (/\ frame[t].op \in {"user", "broadcast"}
          /\ SendCompletes(t)
          /\ \E x \in frame[t].sending : ~CanSend(x.websocket)) =>
            LET f == frame[t]
                g == frame'[t]
                due == IF f.op = "user"
                       THEN NotYetVisited(f) \cap DOMAIN active_connections'
                       ELSE NotYetVisited(f)
            IN /\ g.raised = ""
               /\ IF due = {}
                  THEN g.op = "none"
                  ELSE /\ g.op = f.op
                       /\ g.iter = f.iter
                       /\ f.visited \subseteq g.visited
                       /\ \E c \in due : SendingConns(g) = {c} /\ c \in g.visited]_vars

\* A fan-out whose current send is about to fail while another connection of
\* its snapshot, still registered and reachable, waits for its turn.
C21_Witness ==
    \E t \in Tasks :
       /\ frame[t].op \in {"user", "broadcast"}
       /\ \E x \in frame[t].sending : ~CanSend(x.websocket)
       /\ \E c \in NotYetVisited(frame[t]) :
             c \in DOMAIN active_connections /\ CanSend(OwnerOf(c))


\* C22: a running send_user_message for user u (send_notification(u, ...) or a
\* handler's fan-out, which is for the user the handler authenticated) sends
\* only on the websocket of a connection of u: the connection is in no other
\* user's set, and the socket it sends on is that connection's own socket,
\* whose handler authenticated as u.
C22_UserIsolation ==
    \A t \in Tasks :
       frame[t].op = "user" =>
          /\ t \in Sockets => frame[t].user = user_id[t]
          /\ \A x \in frame[t].sending :
                /\ x.conn = uuid4(x.websocket)
                /\ user_id[x.websocket] \in {frame[t].user, NoUser}
                /\ \A u \in DOMAIN user_connections \ {frame[t].user} :
                      x.conn \notin user_connections[u]

\* A send_user_message is sending while a connection of another user is registered.
C22_Witness ==
    \E t \in Tasks :
       /\ frame[t].op = "user"
       /\ frame[t].sending # {}
       /\ \E u \in DOMAIN user_connections \ {frame[t].user} :
             user_connections[u] \cap DOMAIN active_connections # {}


\* The priorities C23 allows in a stored task.
AllowedPriorities == {"low", "medium", "high"}

\* C23: every stored task's priority is one of low, medium, high; create_task
\* and update_task answer a priority outside these with 400 and write nothing,
\* no request with such a priority gets as far as its commit, and an
\* update_task whose priority is null is answered with an error at its commit
\* and writes nothing.
C23_ValidPriority ==
    [][ /\ \A id \in DOMAIN task_table' : task_table'[id].priority \in AllowedPriorities
        /\ \A id \in DOMAIN task_table : \A p \in Priorities \ AllowedPriorities :
              task_select("update_task", task_table, id, task_table[id].user_id,
                          [field |-> "priority", body |-> p]).status = HTTP_400_BAD_REQUEST
        /\ response'.detail = "Priority must be one of: low, medium, high" =>
              /\ response'.status = HTTP_400_BAD_REQUEST
              /\ Tables' = Tables
              /\ \A w \in Workers : request'[w] = request[w]
        /\ \A w \in Workers :
              /\ request'[w].op = "create_task" => request'[w].body \in AllowedPriorities
              /\ request'[w].op = "update_task" /\ request'[w].field = "priority" =>
                    request'[w].body \in AllowedPriorities \cup {Null}
              /\ (/\ request[w].op = "update_task"
                  /\ request[w].field = "priority"
                  /\ request[w].body \notin AllowedPriorities
                  /\ request'[w] = NoRequest) =>
                    response'.status = HTTP_500_INTERNAL_SERVER_ERROR /\ Tables' = Tables
      ]_allvars

\* An update_task with a priority that is none of the three was answered 400
\* while the task is stored.
C23_Witness ==
    /\ response.op = "update_task"
    /\ response.detail = "Priority must be one of: low, medium, high"
    /\ task_table # EmptyMap


\* C24 as stated: every stored note's tags is null or a text that parses as JSON.
C24_ValidTags ==
    \A id \in DOMAIN note_table :
       note_table[id].tags = Null \/ ~JSONDecodeError(note_table[id].tags)


\* C25: a user that a step adds to the table is no superuser, and no step of
\* register, login, refresh_token, update_user (whatever its body holds) or
\* any other route changes the is_superuser flag of a stored user.
C25_NoEscalation ==
    [][ /\ \A i \in DOMAIN user_table' \ DOMAIN user_table : ~user_table'[i].is_superuser
        /\ \A i \in DOMAIN user_table' \cap DOMAIN user_table :
              user_table'[i].is_superuser = user_table[i].is_superuser
        /\ \A w \in Workers : request'[w].is_superuser = Unset ]_allvars

\* An update_user of a user who is no superuser has been committed, and a
\* registered user is stored.
C25_Witness ==
    /\ response.op = "update_user"
    /\ response.status = HTTP_200_OK
    /\ response.user \in DOMAIN user_table
    /\ ~user_table[response.user].is_superuser
    /\ \E i \in DOMAIN user_table : i > 1


\* Worker w answers a delete_user request for the caller's own id in the step.
SelfDeleteAnswered(w) ==
    /\ request[w].op = "delete_user"
    /\ request[w].target = request[w].caller
    /\ request'[w] = NoRequest

\* C26 as stated: a delete_user request for the caller's own id is answered
\* 400 'Cannot delete yourself' and leaves the user table unchanged.
C26_Original ==
    [][\A w \in Workers :
         SelfDeleteAnswered(w) =>
            /\ response'.status = HTTP_400_BAD_REQUEST
            /\ response'.detail = "Cannot delete yourself"
            /\ user_table' = user_table]_allvars

\* C26, amended: delete_user never removes the row of the superuser who asked:
\* no delete_user request for the caller's own id gets as far as its commit,
\* and a row leaves the table only in the commit of a request of another
\* user.  The request for the caller's own id is answered 400 'Cannot delete
\* yourself' while the caller's row is stored when the handler selects it, and
\* 404 'User not found' when another superuser has deleted the row since the
\* caller was authenticated; either way the user table is unchanged.
C26_NoSelfDelete ==
    [][ /\ \A w \in Workers :
             request'[w].op = "delete_user" /\ request'[w].pc = "commit" =>
                request'[w].target # request'[w].caller
        /\ \A i \in DOMAIN user_table \ DOMAIN user_table' :
             \E w \in Workers : /\ request[w].op = "delete_user"
                                /\ request[w].target = i
                                /\ request[w].caller # i
                                /\ request'[w] = NoRequest
        /\ \A w \in Workers :
             SelfDeleteAnswered(w) =>
                /\ user_table' = user_table
                /\ response'.op = "delete_user"
                /\ IF request[w].caller \in DOMAIN user_table
                   THEN /\ response'.status = HTTP_400_BAD_REQUEST
                        /\ response'.detail = "Cannot delete yourself"
                   ELSE /\ response'.status = HTTP_404_NOT_FOUND
                        /\ response'.detail = "User not found" ]_allvars

\* A superuser asked to delete their own row and was answered 400, with
\* another user stored.
C26_Witness ==
    /\ response.op = "delete_user"
    /\ response.detail = "Cannot delete yourself"
    /\ Cardinality(DOMAIN user_table) = 2


\* C27 as stated: whatever users are stored, a login with the username or the
\* email of a user who is not active carries no token and is answered 400
\* 'Inactive user' if the password is that user's, and 401 if it is not.
C27_InactiveLogin ==
    \A i \in DOMAIN user_table :
       ~user_table[i].is_active =>
          \A username \in {user_table[i].username, user_table[i].email} :
             \A password \in Passwords :
                LET r == login(user_table, username, password) IN
                /\ r.sub = 0
                /\ IF verify_password(password, user_table[i].hashed_password)
                   THEN r.status = HTTP_400_BAD_REQUEST /\ r.detail = "Inactive user"
                   ELSE r.status = HTTP_401_UNAUTHORIZED

====
